---- MODULE Spec2Model ----
(***************************************************************************)
(* The ecodemand cpufreq governor (src/cpufreq_ecodemand.c).               *)
(*                                                                         *)
(* Number representation.  TLC integers are 32-bit signed, the code uses   *)
(* u64 time counters and unsigned int (u32) frequencies and loads.         *)
(*   - a u64 value v is written as the integer r with |r| < 2^30 and       *)
(*     r = v (mod 2^64): small counters are themselves, a wrapped          *)
(*     difference such as 3 - 5 is -2, standing for 2^64 - 2;              *)
(*   - a u32 value v is written as its two's-complement reading            *)
(*     (v if v < 2^31, v - 2^32 otherwise), so (int)v is the identity.     *)
(* Time readings are below 2^20 and frequencies below 2^23 in every input  *)
(* the model draws, which is what the byte-wise operators below rely on.   *)
(***************************************************************************)
EXTENDS Integers, Sequences, FiniteSets, TLC

\* ---------------------------------------------------------------- bounds
MaxTime == 2
MaxFactor == 2

\* ------------------------------------------------------ program constants
DEF_UP_THRESHOLD == 80
DEF_DOWN_THRESHOLD == 20
DEF_FREQ_STEP == 5
DEF_SAMPLING_RATE == 10000
DEF_SAMPLING_DOWN_FACTOR == 1
DEF_POWERSAVE_BIAS == 0
MIN_STEP_KHZ == 1000

\* ------------------------------------------------- fixed-width arithmetic
\* The four bytes (least significant first) of a u32 in two's complement.
Bytes32(x) == [i \in 0..3 |-> (x \div (256 ^ i)) % 256]

\* The eight bytes of a u64 written as a near-zero integer: sign extension.
Bytes64(x) == [i \in 0..7 |-> IF i < 4 THEN (x \div (256 ^ i)) % 256
                                ELSE IF x < 0 THEN 255 ELSE 0]

\* The u32 (two's-complement reading) whose bytes are b[0..3].
FromBytes32(b) ==
    b[0] + 256 * b[1] + 65536 * b[2]
    + 16777216 * (IF b[3] >= 128 THEN b[3] - 256 ELSE b[3])

\* Remainder left after dividing bytes b[i..top] (most significant first) by d.
RECURSIVE RemAbove(_, _, _, _)
RemAbove(b, top, i, d) ==
    IF i > top THEN 0
    ELSE (RemAbove(b, top, i + 1, d) * 256 + b[i]) % d

\* Schoolbook long division of the (top+1)-byte number b by 0 < d < 2^23:
\* the quotient's bytes, least significant first.
LongDiv(b, top, d) ==
    [i \in 0..top |-> (RemAbove(b, top, i + 1, d) * 256 + b[i]) \div d]

\* Unsigned order on u32 / near-zero u64 representatives.
ULt(a, b) == IF (a < 0) = (b < 0) THEN a < b ELSE b < 0

\* The u32 whose byte columns (before carrying) are c[0..3].
Carry32(c) ==
    LET s0 == c[0]
        s1 == c[1] + (s0 \div 256)
        s2 == c[2] + (s1 \div 256)
        s3 == c[3] + (s2 \div 256)
    IN  FromBytes32([i \in 0..3 |->
            CASE i = 0 -> s0 % 256
              [] i = 1 -> s1 % 256
              [] i = 2 -> s2 % 256
              [] i = 3 -> s3 % 256])

\* unsigned int arithmetic: +, - and * modulo 2^32, / truncating.  Operands
\* small enough for the exact result to fit are computed directly; the
\* byte-wise form gives the same value and covers the wrapping cases.
Small(a) == 0 <= a /\ a < 32768

U32Add(a, b) ==
    IF Small(a) /\ Small(b) THEN a + b
    ELSE LET A == Bytes32(a)
             B == Bytes32(b)
         IN  Carry32([i \in 0..3 |-> A[i] + B[i]])

U32Sub(a, b) ==
    IF Small(a) /\ Small(b) THEN a - b
    ELSE
    LET A == Bytes32(a)
        B == Bytes32(b)
    IN  Carry32([i \in 0..3 |-> A[i] + (255 - B[i]) + (IF i = 0 THEN 1 ELSE 0)])

U32Mul(a, b) ==
    IF Small(a) /\ Small(b) THEN a * b
    ELSE
    LET A == Bytes32(a)
        B == Bytes32(b)
    IN  Carry32([k \in 0..3 |->
            CASE k = 0 -> A[0] * B[0]
              [] k = 1 -> A[0] * B[1] + A[1] * B[0]
              [] k = 2 -> A[0] * B[2] + A[1] * B[1] + A[2] * B[0]
              [] k = 3 -> A[0] * B[3] + A[1] * B[2] + A[2] * B[1] + A[3] * B[0]])

U32Div(a, d) ==
    IF d < 0 THEN (IF ULt(a, d) THEN 0 ELSE 1)
    ELSE IF a >= 0 THEN a \div d
    ELSE FromBytes32(LongDiv(Bytes32(a), 3, d))

\* div64_u64(n, d) assigned to an unsigned int: the low 32 bits of the u64
\* quotient.  A divisor written as a negative integer is at least 2^63.
div64_u64(n, d) ==
    IF d < 0 THEN (IF n < 0 /\ n >= d THEN 1 ELSE 0)
    ELSE IF n >= 0 THEN n \div d
    ELSE FromBytes32(LongDiv(Bytes64(n), 7, d))

\* ------------------------------------------------------------- input sets
\* Frequencies (kHz) of the driver's table, and the values the policy limits
\* are set to.
FreqTable == {800, 1200, 2000}
LimitValues == {500, 2000}

\* The CPUs of the policy (policy->cpus).
PolicyCpus == {0}

\* One reading of the two idle-time interfaces for one CPU: get_cpu_idle_time
\* gives (idle, wall); when its wall is 0 the code asks get_cpu_idle_time_us,
\* which gives (idle_us, wall_us).  Readings are not assumed monotonic: a
\* counter may stand still, reset, or idle may advance faster than wall.
CpuReadings ==
    {[idle |-> i, wall |-> w, idle_us |-> 0, wall_us |-> 0] :
        i \in 0..MaxTime, w \in 1..MaxTime}
    \cup
    {[idle |-> 0, wall |-> 0, idle_us |-> i, wall_us |-> w] :
        i \in 0..MaxTime, w \in {0, MaxTime}}

Readings == [PolicyCpus -> CpuReadings]

UpThresholds == {DEF_UP_THRESHOLD}
DownThresholds == {DEF_DOWN_THRESHOLD}
FreqSteps == {0, DEF_FREQ_STEP}
DownFactors == 0..MaxFactor
PowersaveBiases == {-30, DEF_POWERSAVE_BIAS, 30}

\* ------------------------------------------------------------ policy reads
\* The tick reads the limits from struct cpufreq_policy each time it uses
\* them: policy->max at lines 107, 136, 143, 145 and 146, policy->min at lines
\* 152, 156, 158 and 159.  It holds only its own timer_mutex, which the store
\* of the limits by the cpufreq core does not take, so the reads of one tick
\* need not see the same value.  The policy as a tick reads it has one value
\* of max and of min per reading line.
MaxReads == {107, 136, 143, 145, 146}
MinReads == {152, 156, 158, 159}

\* The pairs of limits the cpufreq core stores.
LimitPairs == {p \in [min : LimitValues, max : LimitValues] : p.min <= p.max}

\* The policy pol as read by a tick that finds the limits lim at every read.
policy_reads(pol, lim) ==
    [cur |-> pol.cur, cpus |-> pol.cpus,
     max |-> [l \in MaxReads |-> lim.max],
     min |-> [l \in MinReads |-> lim.min]]

\* ------------------------------------------------------ eco_calculate_load
\* Lines 83-85: the reading used for one CPU.
cur_wall_time(r) == IF r.wall = 0 THEN r.wall_us ELSE r.wall
cur_idle_time(r) == IF r.wall = 0 THEN r.idle_us ELSE r.idle

\* Lines 87-88 (u64 arithmetic, wrapping).
dt(st, r) == cur_wall_time(r) - st.prev_total_time
db(st, r) ==
    dt(st, r) - (cur_idle_time(r) - (st.prev_total_time - st.prev_busy_time))

\* Lines 91-92: the per-CPU accounting state left for the next sample.
eco_cpu_stats(r) ==
    [prev_total_time |-> cur_wall_time(r),
     prev_busy_time  |-> cur_wall_time(r) - cur_idle_time(r)]

\* Lines 94-97 summed over the CPUs of the policy: `dt > 0` on a u64.
RECURSIVE total_time(_, _, _, _)
total_time(cpus, stats, rd, busy) ==
    IF cpus = {} THEN 0
    ELSE LET c == CHOOSE x \in cpus : TRUE
             rest == total_time(cpus \ {c}, stats, rd, busy)
         IN  IF dt(stats[c], rd[c]) # 0
             THEN rest + (IF busy THEN db(stats[c], rd[c]) ELSE dt(stats[c], rd[c]))
             ELSE rest

total_busy_time(pol, stats, rd) == total_time(pol.cpus, stats, rd, TRUE)
total_wall_time(pol, stats, rd) == total_time(pol.cpus, stats, rd, FALSE)

\* Line 104.
raw_usage(pol, stats, rd) ==
    div64_u64(total_busy_time(pol, stats, rd) * 100, total_wall_time(pol, stats, rd))

\* Mutant of frequency_scaled_load: the raw usage is returned unscaled.
frequency_unscaled_load(raw, cur, max) == raw

\* Line 107: the raw usage scaled by current vs. maximum frequency, in
\* unsigned int arithmetic.
frequency_scaled_load(raw, cur, max) == U32Div(U32Mul(raw, cur), max)

\* Mutant of eco_calculate_load: no elapsed time is reported as full load.
eco_calculate_load_busy(pol, stats, rd) ==
    IF total_wall_time(pol, stats, rd) # 0
    THEN frequency_scaled_load(raw_usage(pol, stats, rd), pol.cur, pol.max[107])
    ELSE 100

\* Lines 100-110: the value returned.
eco_calculate_load(pol, stats, rd) ==
    IF total_wall_time(pol, stats, rd) # 0
    THEN frequency_scaled_load(raw_usage(pol, stats, rd), pol.cur, pol.max[107])
    ELSE 0

\* ----------------------------------------------------------- eco_dbs_update
\* Mutant of effective_load: the bias is added instead of subtracted.
effective_load_added(load, bias) ==
    LET e == U32Add(load, bias)
    IN  IF e < 0 THEN 0 ELSE IF e > 100 THEN 100 ELSE e

\* Lines 129-133.
effective_load(load, bias) ==
    LET e == U32Sub(load, bias)
    IN  IF e < 0 THEN 0 ELSE IF e > 100 THEN 100 ELSE e

\* Mutant of freq_step_khz: no minimum step is substituted.
freq_step_khz_no_minimum(pol, tuners) ==
    U32Div(U32Mul(pol.max[136], tuners.freq_step), 100)

\* Lines 136-138.
freq_step_khz(pol, tuners) ==
    LET s == U32Div(U32Mul(pol.max[136], tuners.freq_step), 100)
    IN  IF s = 0 THEN MIN_STEP_KHZ ELSE s

\* Mutant of next_freq_up: the target is not clamped to policy->max.
next_freq_up_unclamped(pol, step) == U32Add(pol.cur, step)

\* Lines 144-146: the step-up target.
next_freq_up(pol, step) ==
    LET n == U32Add(pol.cur, step)
    IN  IF ULt(pol.max[145], n) THEN pol.max[146] ELSE n

\* Lines 143-146: the lines at which the step-up branch reads policy->max.
max_reads_up(pol, step) ==
    {143} \cup
    (IF ULt(pol.cur, pol.max[143])
     THEN {145} \cup (IF ULt(pol.max[145], U32Add(pol.cur, step)) THEN {146} ELSE {})
     ELSE {})

\* Mutant of next_freq_down: the step is subtracted without the test of
\* line 153.
next_freq_down_underflow(pol, step) ==
    LET n == U32Sub(pol.cur, step)
    IN  IF ULt(n, pol.min[158]) THEN pol.min[159] ELSE n

\* Lines 153-159: the step-down target.
next_freq_down(pol, step) ==
    LET n == IF ULt(step, pol.cur) THEN U32Sub(pol.cur, step) ELSE pol.min[156]
    IN  IF ULt(n, pol.min[158]) THEN pol.min[159] ELSE n

\* Lines 152-159: the lines at which the step-down branch reads policy->min
\* once the debounce count is reached.
min_reads_down(pol, step) ==
    {152} \cup
    (IF ULt(pol.min[152], pol.cur)
     THEN LET n == IF ULt(step, pol.cur) THEN U32Sub(pol.cur, step)
                   ELSE pol.min[156]
          IN  (IF ULt(step, pol.cur) THEN {} ELSE {156}) \cup {158} \cup
              (IF ULt(n, pol.min[158]) THEN {159} ELSE {})
     ELSE {})

\* Mutant of debounce_reached: `>` where the code has `>=`.
debounce_reached_strict(dc, tuners) == ULt(tuners.sampling_down_factor, dc)

\* Line 141, line 149 (int compared with unsigned int) and line 151.
above_up_threshold(eff, tuners) == ULt(tuners.up_threshold, eff)
below_down_threshold(eff, tuners) == ULt(eff, tuners.down_threshold)
debounce_reached(dc, tuners) == ~ULt(dc, tuners.sampling_down_factor)

\* Mutant of step_up: the debounce counter is not reset.
step_up_keeps_count(pol, down_count, step) ==
    [branch |-> "up",
     down_count |-> down_count,
     reads |-> max_reads_up(pol, step),
     reqs |-> IF ULt(pol.cur, pol.max[143])
              THEN <<[freq |-> next_freq_up(pol, step), relation |-> "H"]>>
              ELSE <<>>]

\* Lines 142-148: the step-up branch.
step_up(pol, down_count, step) ==
    [branch |-> "up",
     down_count |-> 0,
     reads |-> max_reads_up(pol, step),
     reqs |-> IF ULt(pol.cur, pol.max[143])
              THEN <<[freq |-> next_freq_up(pol, step), relation |-> "H"]>>
              ELSE <<>>]

\* Mutant of step_down: the counter is reset only when a request is made.
step_down_reset_on_request(pol, tuners, down_count, step) ==
    LET dc == U32Add(down_count, 1)
    IN  IF debounce_reached(dc, tuners) /\ ULt(pol.min[152], pol.cur)
        THEN [branch |-> "down",
              down_count |-> 0,
              reads |-> min_reads_down(pol, step),
              reqs |-> <<[freq |-> next_freq_down(pol, step), relation |-> "L"]>>]
        ELSE [branch |-> "down", down_count |-> dc,
              reads |-> IF debounce_reached(dc, tuners) THEN {152} ELSE {},
              reqs |-> <<>>]

\* Mutant of step_down: the counter is not reset when the count is reached.
step_down_keeps_count(pol, tuners, down_count, step) ==
    LET dc == U32Add(down_count, 1)
    IN  [branch |-> "down",
         down_count |-> dc,
         reads |-> IF debounce_reached(dc, tuners)
                   THEN min_reads_down(pol, step) ELSE {},
         reqs |-> IF debounce_reached(dc, tuners) /\ ULt(pol.min[152], pol.cur)
                  THEN <<[freq |-> next_freq_down(pol, step), relation |-> "L"]>>
                  ELSE <<>>]

\* Lines 150-165: the step-down branch with its debounce counter.
step_down(pol, tuners, down_count, step) ==
    LET dc == U32Add(down_count, 1)
    IN  IF debounce_reached(dc, tuners)
        THEN [branch |-> "down",
              down_count |-> 0,
              reads |-> min_reads_down(pol, step),
              reqs |-> IF ULt(pol.min[152], pol.cur)
                       THEN <<[freq |-> next_freq_down(pol, step), relation |-> "L"]>>
                       ELSE <<>>]
        ELSE [branch |-> "down", down_count |-> dc, reads |-> {}, reqs |-> <<>>]

\* Mutant of hold: the debounce counter is not reset.
hold_keeps_count(down_count) ==
    [branch |-> "hold", down_count |-> down_count, reads |-> {}, reqs |-> <<>>]

\* Lines 166-169: within the hysteresis band.
hold(down_count) ==
    [branch |-> "hold", down_count |-> 0, reads |-> {}, reqs |-> <<>>]

\* Lines 141-169: the branch taken, the requests made, the debounce counter
\* left and the lines at which the limits were read by one tick, given the
\* effective load.
step_decision(pol, tuners, down_count, eff, step) ==
    IF above_up_threshold(eff, tuners) THEN step_up(pol, down_count, step)
    ELSE IF below_down_threshold(eff, tuners)
    THEN step_down(pol, tuners, down_count, step)
    ELSE hold(down_count)

\* Lines 78-104: what one tick takes from the time readings rd, whatever the
\* limits are: the deltas of each CPU, their totals, the raw usage and the
\* accounting state left for the next sample.
eco_sample(d, pol, rd) ==
    [dt |-> [c \in pol.cpus |-> dt(d.cpu_stats[c], rd[c])],
     db |-> [c \in pol.cpus |-> db(d.cpu_stats[c], rd[c])],
     total_busy_time |-> total_busy_time(pol, d.cpu_stats, rd),
     total_wall_time |-> total_wall_time(pol, d.cpu_stats, rd),
     raw_usage |-> IF total_wall_time(pol, d.cpu_stats, rd) # 0
                   THEN raw_usage(pol, d.cpu_stats, rd) ELSE 0,
     cpu_stats |-> [c \in pol.cpus |-> eco_cpu_stats(rd[c])]]

\* What a tick leaves: the governor state, the requests made, the lines at
\* which it read the limits, and in `tick` what the call computed and what it
\* read on entry (policy->cur, dbs->down_count).
tick_result(d, pol, s, load, eff, step, dec) ==
    [dbs  |-> [d EXCEPT !.cpu_stats = s.cpu_stats,
                        !.down_count = dec.down_count],
     reqs |-> dec.reqs,
     reads |-> (IF s.total_wall_time # 0 THEN {107} ELSE {}) \cup {136}
                   \cup dec.reads,
     tick |-> [valid |-> TRUE, limits_torn |-> FALSE,
               dt |-> s.dt, db |-> s.db,
               total_busy_time |-> s.total_busy_time,
               total_wall_time |-> s.total_wall_time,
               raw_usage |-> s.raw_usage,
               load |-> load, effective_load |-> eff,
               freq_step_khz |-> step, branch |-> dec.branch,
               cur |-> pol.cur, down_count |-> d.down_count]]

\* Lines 113-170: one tick body on the governor state d for the policy as the
\* tick reads it (pol, see policy_reads) with the time readings rd.
eco_dbs_update(d, pol, rd) ==
    LET load == eco_calculate_load(pol, d.cpu_stats, rd)
        eff  == effective_load(load, d.tuners.powersave_bias)
        step == freq_step_khz(pol, d.tuners)
        dec  == step_decision(pol, d.tuners, d.down_count, eff, step)
    IN  tick_result(d, pol, eco_sample(d, pol, rd), load, eff, step, dec)

\* ------------------------------------------------------------------ state
VARIABLES
    policy,         \* struct cpufreq_policy: cur, min, max, cpus
    governor_data,  \* policy->governor_data is non-NULL (dbs is allocated)
    dbs,            \* struct eco_policy_dbs: tuners, cpu_stats, down_count
    timer_mutex,    \* dbs->timer_mutex: 0 when free, else the worker holding it
    work,           \* dbs->work: pending (timer armed or queued), canceling,
                    \* and the delay it was armed with
    pc,             \* where each kworker is inside eco_dbs_timer
    gov,            \* where the cpufreq core is: "idle", or blocked in a cancel
    reqs,           \* the __cpufreq_driver_target calls of the latest tick
    tick            \* the locals of the latest eco_dbs_update call, and
                    \* whether its reads of the limits disagreed

vars == <<policy, governor_data, dbs, timer_mutex, work, pc, gov, reqs, tick>>

Workers == {1, 2}

NoTick == [valid |-> FALSE, limits_torn |-> FALSE, dt |-> <<>>, db |-> <<>>, total_busy_time |-> 0,
           total_wall_time |-> 0, raw_usage |-> 0, load |-> 0,
           effective_load |-> 0, freq_step_khz |-> 0, branch |-> "none",
           cur |-> 0, down_count |-> 0]

\* kzalloc'ed memory before eco_init has filled it in.
ZeroDbs ==
    [tuners |-> [up_threshold |-> 0, down_threshold |-> 0, freq_step |-> 0,
                 sampling_rate |-> 0, sampling_down_factor |-> 0,
                 powersave_bias |-> 0],
     cpu_stats |-> [c \in PolicyCpus |-> [prev_total_time |-> 0, prev_busy_time |-> 0]],
     down_count |-> 0]

\* Lines 211-216.
DefaultTuners ==
    [up_threshold |-> DEF_UP_THRESHOLD, down_threshold |-> DEF_DOWN_THRESHOLD,
     freq_step |-> DEF_FREQ_STEP, sampling_rate |-> DEF_SAMPLING_RATE,
     sampling_down_factor |-> DEF_SAMPLING_DOWN_FACTOR,
     powersave_bias |-> DEF_POWERSAVE_BIAS]

\* Lines 199-234: the governor state eco_init builds from the baseline reading.
InitDbs(rd) ==
    [tuners |-> DefaultTuners,
     cpu_stats |-> [c \in DOMAIN rd |-> eco_cpu_stats(rd[c])],
     down_count |-> 0]

\* The policies the cpufreq core hands to a governor: cur within the limits.
StartPolicies ==
    {[cur |-> c, min |-> lo, max |-> hi, cpus |-> PolicyCpus] :
        c \in FreqTable, lo \in LimitValues, hi \in LimitValues}
    \cap {p \in [cur : FreqTable, min : LimitValues, max : LimitValues,
                 cpus : {PolicyCpus}] : p.min <= p.cur /\ p.cur <= p.max}

\* ------------------------------------------------------------ environment
\* The relation argument of __cpufreq_driver_target (lines 147, 161) as the
\* cpufreq core defines it: CPUFREQ_RELATION_L selects the lowest frequency at
\* or above the target, CPUFREQ_RELATION_H the highest frequency at or below
\* it.
rounding_hint(relation) == IF relation = "L" THEN "at_least" ELSE "at_most"

\* The frequency the driver selects for a request: the target is clamped to
\* the limits and looked up in the table according to the relation; when no
\* table frequency lies on the side asked for, the nearest one on the other
\* side is taken.
cpufreq_frequency_table_target(pol, target, relation) ==
    LET t == IF target < pol.min THEN pol.min
             ELSE IF target > pol.max THEN pol.max ELSE target
        avail == {f \in FreqTable : pol.min <= f /\ f <= pol.max}
        above == {f \in avail : f >= t}
        below == {f \in avail : f <= t}
        lowest(S) == CHOOSE f \in S : \A g \in S : f <= g
        highest(S) == CHOOSE f \in S : \A g \in S : f >= g
    IN  IF avail = {} THEN pol.cur
        ELSE IF rounding_hint(relation) = "at_least"
        THEN (IF above # {} THEN lowest(above) ELSE highest(avail))
        ELSE (IF below # {} THEN highest(below) ELSE lowest(avail))

\* __cpufreq_driver_target (lines 147, 161): what policy->cur may be after the
\* calls in rq.  The driver may fail and leave cur alone, or switch to the
\* table frequency selected for the request.
cpufreq_driver_target(pol, rq) ==
    IF rq = <<>> THEN {pol.cur}
    ELSE {pol.cur,
          cpufreq_frequency_table_target(pol, rq[1].freq, rq[1].relation)}

\* The cpufreq core changes the limits of the policy.  The governor has no
\* .limits callback (line 281), so cur is left where it is.
policy_update ==
    /\ \E lo \in LimitValues, hi \in LimitValues :
         /\ lo <= hi
         /\ policy' = [policy EXCEPT !.min = lo, !.max = hi]
    /\ reqs' = <<>>
    /\ tick' = NoTick
    /\ UNCHANGED <<governor_data, dbs, timer_mutex, work, pc, gov>>

\* The configuration surface stores one tuner, under the lock of the tick.
store_tuner ==
    /\ governor_data
    /\ timer_mutex = 0
    /\ \/ \E v \in UpThresholds : dbs' = [dbs EXCEPT !.tuners.up_threshold = v]
       \/ \E v \in DownThresholds : dbs' = [dbs EXCEPT !.tuners.down_threshold = v]
       \/ \E v \in FreqSteps : dbs' = [dbs EXCEPT !.tuners.freq_step = v]
       \/ \E v \in DownFactors : dbs' = [dbs EXCEPT !.tuners.sampling_down_factor = v]
       \/ \E v \in PowersaveBiases : dbs' = [dbs EXCEPT !.tuners.powersave_bias = v]
    /\ reqs' = <<>>
    /\ tick' = NoTick
    /\ UNCHANGED <<policy, governor_data, timer_mutex, work, pc, gov>>

\* ------------------------------------------------------------ the tick body
\* The values a read of policy->max, of policy->min, may see during a tick
\* that starts with the policy pol: the value it has, or one the cpufreq core
\* stores meanwhile; and the limits the tick may end with.
max_seen(pol) == {pol.max} \cup LimitValues
min_seen(pol) == {pol.min} \cup LimitValues
limits_left(pol) == {[min |-> pol.min, max |-> pol.max]} \cup LimitPairs

\* The reads of the branch a tick takes at the effective load eff, while the
\* cpufreq core stores limits during the tick: each read sees any of the
\* values in maxs, in mins.
branch_reads(v, tuners, eff, maxs, mins) ==
    IF above_up_threshold(eff, tuners)
    THEN {[v EXCEPT !.max[143] = a, !.max[145] = b, !.max[146] = c] :
             a \in maxs, b \in maxs, c \in maxs}
    ELSE IF below_down_threshold(eff, tuners)
    THEN {[v EXCEPT !.min[152] = a, !.min[156] = b, !.min[158] = c, !.min[159] = e] :
             a \in mins, b \in mins, c \in mins, e \in mins}
    ELSE {v}

\* Lines 113-170 run while the cpufreq core stores limits any number of times:
\* the results of eco_dbs_update for every way its reads of policy->max and
\* policy->min may fall among the stores, each with the policy as it was read.
\* s is eco_sample(d, pol, rd); maxs and mins are the values a read may see.
racing_ticks(d, pol, rd, s, maxs, mins) ==
    UNION {
      UNION {
        UNION {
          UNION {
            {[read |-> v,
              out |-> tick_result(d, v, s, load, eff, step,
                         step_decision(v, d.tuners, d.down_count, eff, step))] :
                v \in branch_reads([v1 EXCEPT !.max[136] = b], d.tuners, eff,
                                   maxs, mins)} :
            step \in {freq_step_khz([v1 EXCEPT !.max[136] = b], d.tuners)}} :
          b \in maxs} :
        load \in {eco_calculate_load(v1, d.cpu_stats, rd)},
        eff \in {effective_load(eco_calculate_load(v1, d.cpu_stats, rd),
                                d.tuners.powersave_bias)}} :
      v1 \in {[policy_reads(pol, pol) EXCEPT !.max[107] = a] : a \in maxs}}

\* A read made by the tick saw another value than the one the limits have
\* when the tick ends.
limits_torn(v, reads, lim) ==
    \/ \E l \in reads \cap MaxReads : v.max[l] # lim.max
    \/ \E l \in reads \cap MinReads : v.min[l] # lim.min

\* eco_dbs_update on the current state, with its actuator calls, when the
\* reads of the limits see values of maxs and mins and the limits are one of
\* lims when the tick ends; the driver is called with these.
tick_update(maxs, mins, lims) ==
    \E rd \in [policy.cpus -> CpuReadings] :
        \E ticks \in {racing_ticks(dbs, policy, rd, eco_sample(dbs, policy, rd),
                                   maxs, mins)} :
            \E lim \in lims :
                \E r \in {[dbs |-> t.out.dbs, reqs |-> t.out.reqs,
                           tick |-> [t.out.tick EXCEPT !.limits_torn =
                                        limits_torn(t.read, t.out.reads, lim)]] :
                          t \in ticks} :
                    /\ dbs' = r.dbs
                    /\ reqs' = r.reqs
                    /\ tick' = r.tick
                    /\ \E c \in cpufreq_driver_target(
                                    [policy EXCEPT !.min = lim.min, !.max = lim.max],
                                    r.reqs) :
                           policy' = [policy EXCEPT !.cur = c, !.min = lim.min,
                                                    !.max = lim.max]

\* Line 186, run while the cpufreq core may store limits.
dbs_update == tick_update(max_seen(policy), min_seen(policy), limits_left(policy))

\* Line 186, run while nothing stores the limits.
dbs_update_quiet ==
    tick_update({policy.max}, {policy.min},
                {[min |-> policy.min, max |-> policy.max]})

\* ------------------------------------------------------------- workqueue
\* schedule_delayed_work (lines 190, 262): arms the work with the delay (in
\* us, as handed to usecs_to_jiffies) unless it is already pending or being
\* cancelled.
schedule_delayed_work(wk, delay) ==
    IF wk.pending \/ wk.canceling THEN wk
    ELSE [wk EXCEPT !.pending = TRUE, !.delay = delay]

\* cancel_delayed_work_sync (lines 247, 272), entry: the pending timer is
\* deleted and the work is marked so that it cannot be queued.
cancel_begin(wk) == [pending |-> FALSE, canceling |-> TRUE, delay |-> 0]

\* Mutant of cancel_may_return: cancel_delayed_work without _sync.
cancel_returns_at_once == TRUE

\* cancel_delayed_work_sync returns once no execution of the work is in flight.
cancel_may_return == \A w \in Workers : pc[w] = "idle"

\* Mutant of mutex_can_lock: the tick body takes no lock.
mutex_not_taken(w) == TRUE

\* mutex_lock(&dbs->timer_mutex) (line 179) can take the lock.
mutex_can_lock(w) == timer_mutex = 0

\* ------------------------------------------------------------ eco_dbs_timer
\* The delay expires and kworker w starts to run the work function.
timer_run(w) ==
    /\ work.pending
    /\ pc[w] = "idle"
    /\ work' = [work EXCEPT !.pending = FALSE, !.delay = 0]
    /\ pc' = [pc EXCEPT ![w] = "lock"]
    /\ UNCHANGED <<policy, governor_data, dbs, timer_mutex, gov, reqs, tick>>

\* Line 179.
timer_lock(w) ==
    /\ pc[w] = "lock"
    /\ mutex_can_lock(w)
    /\ timer_mutex' = w
    /\ pc' = [pc EXCEPT ![w] = "locked"]
    /\ UNCHANGED <<policy, governor_data, dbs, work, gov, reqs, tick>>

\* Lines 181-186 (dbs->policy is never NULL once eco_init has run).
timer_update(w) ==
    /\ pc[w] = "locked"
    /\ dbs_update
    /\ pc' = [pc EXCEPT ![w] = "unlock"]
    /\ UNCHANGED <<governor_data, timer_mutex, work, gov>>

\* Line 188: eco_dbs_update has returned, its locals are gone.
timer_unlock(w) ==
    /\ pc[w] = "unlock"
    /\ timer_mutex' = IF timer_mutex = w THEN 0 ELSE timer_mutex
    /\ pc' = [pc EXCEPT ![w] = "resched"]
    /\ reqs' = <<>>
    /\ tick' = NoTick
    /\ UNCHANGED <<policy, governor_data, dbs, work, gov>>

\* Mutant of timer_rearm: the tick does not re-arm the work.
timer_rearm_skipped(wk, tuners) == wk

\* Lines 190-191: the tick re-arms the work after sampling_rate.
timer_rearm(wk, tuners) == schedule_delayed_work(wk, tuners.sampling_rate)

\* Lines 190-191: dbs->tuners.sampling_rate is read here, after the unlock.
timer_resched(w) ==
    /\ pc[w] = "resched"
    /\ work' = timer_rearm(work, dbs.tuners)
    /\ pc' = [pc EXCEPT ![w] = "idle"]
    /\ UNCHANGED <<policy, governor_data, dbs, timer_mutex, gov, reqs, tick>>

\* ------------------------------------------------------ governor callbacks
\* Lines 194-238 (allocation succeeds).
eco_init ==
    /\ gov = "idle"
    /\ ~governor_data
    /\ \E rd \in Readings : dbs' = InitDbs(rd)
    /\ timer_mutex' = 0
    /\ work' = [pending |-> FALSE, canceling |-> FALSE, delay |-> 0]
    /\ governor_data' = TRUE
    /\ UNCHANGED <<policy, pc, gov, reqs, tick>>

\* Lines 254-265.
eco_start ==
    /\ gov = "idle"
    /\ governor_data
    /\ work' = schedule_delayed_work(work, dbs.tuners.sampling_rate)
    /\ UNCHANGED <<policy, governor_data, dbs, timer_mutex, pc, gov, reqs, tick>>

\* Lines 267-273: eco_stop enters cancel_delayed_work_sync ...
eco_stop_call ==
    /\ gov = "idle"
    /\ governor_data
    /\ work' = cancel_begin(work)
    /\ gov' = "stop"
    /\ UNCHANGED <<policy, governor_data, dbs, timer_mutex, pc, reqs, tick>>

\* ... and returns from it.
eco_stop_return ==
    /\ gov = "stop"
    /\ cancel_may_return
    /\ work' = [work EXCEPT !.canceling = FALSE]
    /\ gov' = "idle"
    /\ UNCHANGED <<policy, governor_data, dbs, timer_mutex, pc, reqs, tick>>

\* Lines 240-247: eco_exit enters cancel_delayed_work_sync ...
eco_exit_call ==
    /\ gov = "idle"
    /\ governor_data
    /\ work' = cancel_begin(work)
    /\ gov' = "exit"
    /\ UNCHANGED <<policy, governor_data, dbs, timer_mutex, pc, reqs, tick>>

\* ... and, once it has returned, frees the state (lines 249-251).
eco_exit_return ==
    /\ gov = "exit"
    /\ cancel_may_return
    /\ work' = [work EXCEPT !.canceling = FALSE]
    /\ dbs' = ZeroDbs
    /\ governor_data' = FALSE
    /\ gov' = "idle"
    /\ UNCHANGED <<policy, timer_mutex, pc, reqs, tick>>

\* ---------------------------------------------------------- specifications
\* The governor as the cpufreq core and the workqueue drive it.
Init ==
    /\ policy \in StartPolicies
    /\ governor_data = FALSE
    /\ dbs = ZeroDbs
    /\ timer_mutex = 0
    /\ work = [pending |-> FALSE, canceling |-> FALSE, delay |-> 0]
    /\ pc = [w \in Workers |-> "idle"]
    /\ gov = "idle"
    /\ reqs = <<>>
    /\ tick = NoTick

Next ==
    \/ eco_init
    \/ eco_start
    \/ eco_stop_call
    \/ eco_stop_return
    \/ eco_exit_call
    \/ eco_exit_return
    \/ \E w \in Workers : timer_run(w)
    \/ \E w \in Workers : timer_lock(w)
    \/ \E w \in Workers : timer_update(w)
    \/ \E w \in Workers : timer_unlock(w)
    \/ \E w \in Workers : timer_resched(w)

Spec == Init /\ [][Next]_vars

\* The same with the kworkers scheduled fairly: an armed work is eventually
\* run and a worker inside eco_dbs_timer eventually takes its next step.  The
\* policy here starts in the middle of the table, the time source reports a
\* CPU that was never idle, on the primary interface, and nothing stores the
\* limits.
LiveCpuReadings == {r \in CpuReadings : r.wall # 0 /\ r.idle = 0}

LiveSamples ==
    \A c \in PolicyCpus :
        \/ dbs.cpu_stats[c] = ZeroDbs.cpu_stats[c]
        \/ \E r \in LiveCpuReadings : dbs.cpu_stats[c] = eco_cpu_stats(r)

TimerStep ==
    \E w \in Workers :
        \/ timer_run(w)
        \/ timer_lock(w)
        \/ timer_update(w)
        \/ timer_unlock(w)
        \/ timer_resched(w)

InitLive == Init /\ policy.min < policy.cur /\ policy.cur < policy.max

LimitsKept ==
    /\ policy'.min = policy.min
    /\ policy'.max = policy.max
    /\ ~tick'.limits_torn

NextLive == Next /\ LiveSamples' /\ LimitsKept

SpecLive ==
    InitLive /\ [][NextLive]_vars /\ WF_vars(TimerStep /\ LiveSamples' /\ LimitsKept)

\* The tick body run tick after tick on an initialised governor, while the
\* tuners change between ticks and the limits between and during ticks.
InitTick ==
    /\ policy \in StartPolicies
    /\ governor_data = TRUE
    /\ \E rd \in Readings : dbs = InitDbs(rd)
    /\ timer_mutex = 0
    /\ work = [pending |-> FALSE, canceling |-> FALSE, delay |-> 0]
    /\ pc = [w \in Workers |-> "idle"]
    /\ gov = "idle"
    /\ reqs = <<>>
    /\ tick = NoTick

tick_body ==
    /\ dbs_update
    /\ UNCHANGED <<governor_data, timer_mutex, work, pc, gov>>

\* Line 170: eco_dbs_update returns and its locals are gone.
tick_return ==
    /\ tick.valid
    /\ reqs' = <<>>
    /\ tick' = NoTick
    /\ UNCHANGED <<policy, governor_data, dbs, timer_mutex, work, pc, gov>>

NextTick ==
    \/ ~tick.valid /\ tick_body
    \/ tick_return
    \/ policy_update
    \/ store_tuner

SpecTick == InitTick /\ [][NextTick]_vars

\* The tick body run tick after tick, fairly, with fixed limits (the ends of
\* the frequency table, never stored) and fixed tuners, against a driver that carries out
\* every request as the relation passed with it asks.  A powersave_bias of
\* -100 keeps the effective load at 100 whatever the readings.
ConvergeBiases == {-100, DEF_POWERSAVE_BIAS}

InitConverge ==
    /\ \E c \in FreqTable :
          policy = [cur |-> c,
                    min |-> CHOOSE f \in FreqTable : \A g \in FreqTable : f <= g,
                    max |-> CHOOSE f \in FreqTable : \A g \in FreqTable : f >= g,
                    cpus |-> PolicyCpus]
    /\ governor_data = TRUE
    /\ \E rd \in Readings, b \in ConvergeBiases :
          dbs = [InitDbs(rd) EXCEPT !.tuners.powersave_bias = b]
    /\ timer_mutex = 0
    /\ work = [pending |-> FALSE, canceling |-> FALSE, delay |-> 0]
    /\ pc = [w \in Workers |-> "idle"]
    /\ gov = "idle"
    /\ reqs = <<>>
    /\ tick = NoTick

honoured_tick ==
    /\ dbs_update_quiet
    /\ UNCHANGED <<governor_data, timer_mutex, work, pc, gov>>
    /\ policy'.cur =
           IF reqs' = <<>> THEN policy.cur
           ELSE cpufreq_frequency_table_target(policy, reqs'[1].freq,
                                               reqs'[1].relation)

NextConverge == honoured_tick

SpecConverge == InitConverge /\ [][NextConverge]_vars /\ WF_vars(honoured_tick)

\* One tick body for a policy that groups two CPUs, at the default tuners:
\* eco_init takes the baseline readings and the first tick the next ones.
GroupCpus == {0, 1}

InitGroup ==
    /\ policy = [cur |-> 2000, min |-> 500, max |-> 2000, cpus |-> GroupCpus]
    /\ governor_data = TRUE
    /\ \E rd \in [GroupCpus -> CpuReadings] : dbs = InitDbs(rd)
    /\ timer_mutex = 0
    /\ work = [pending |-> FALSE, canceling |-> FALSE, delay |-> 0]
    /\ pc = [w \in Workers |-> "idle"]
    /\ gov = "idle"
    /\ reqs = <<>>
    /\ tick = NoTick

NextGroup == ~tick.valid /\ tick_body

SpecGroup == InitGroup /\ [][NextGroup]_vars

\* ----------------------------------------------------------------- claims
\* What the latest tick read: its tuners are the current ones (store_tuner
\* discards `tick`), and so are its limits (policy_update discards it) when no
\* read of the tick fell before a store of the limits: then the tick saw one
\* min_freq and one max_freq, those of `policy`.
Tuners == dbs.tuners
OneBounds == tick.valid /\ ~tick.limits_torn
Below == tick.effective_load < Tuners.down_threshold
Above == tick.effective_load > Tuners.up_threshold
Clamp(x, lo, hi) == IF x < lo THEN lo ELSE IF x > hi THEN hi ELSE x

\* The governor state and policy of the scenarios of the specification:
\* thresholds 80/20, freq_step 5, sampling_down_factor 1, max_freq 2000.
ScenarioDbs(bias) ==
    [tuners |-> [DefaultTuners EXCEPT !.powersave_bias = bias],
     cpu_stats |-> [c \in {0} |-> [prev_total_time |-> 0, prev_busy_time |-> 0]],
     down_count |-> 0]
ScenarioPolicy(cur) ==
    policy_reads([cur |-> cur, cpus |-> {0}], [min |-> 1000, max |-> 2000])
\* A reading after which `busy` of `wall` time units were busy.
ScenarioReading(busy, wall) ==
    [c \in {0} |-> [idle |-> wall - busy, wall |-> wall, idle_us |-> 0, wall_us |-> 0]]

\* C1: every actuation request of a tick has a target frequency within
\* [min_freq, max_freq] of the limits read in that tick, also when the limits
\* changed since the previous tick and cur_freq lies outside them (shown here
\* already for the ticks that saw one pair of limits, whose time readings did
\* not go backwards and whose raw usage is in 0..100).
C1_RequestWithinLimits ==
    (OneBounds /\ tick.total_wall_time >= 0
     /\ 0 <= tick.raw_usage /\ tick.raw_usage <= 100) =>
        \A i \in DOMAIN reqs :
            policy.min <= reqs[i].freq /\ reqs[i].freq <= policy.max

\* C2: debounce.  With sampling_down_factor = N >= 1, a below-threshold tick
\* that finds k earlier consecutive below-threshold ticks counted (down_count
\* = k on entry) makes no request and counts k + 1 while k + 1 < N, and makes
\* exactly one step-down request, resetting the count, when k + 1 = N and
\* cur_freq > min_freq: from a count of 0 the request comes on the Nth tick,
\* not before.  min_freq is the one the tick saw.
C2_Debounce ==
    (tick.valid /\ Below /\ Tuners.sampling_down_factor >= 1) =>
        /\ tick.branch = "down"
        /\ (tick.down_count + 1 < Tuners.sampling_down_factor) =>
               (reqs = <<>> /\ dbs.down_count = tick.down_count + 1)
        /\ (tick.down_count + 1 = Tuners.sampling_down_factor) =>
               dbs.down_count = 0
        /\ (tick.down_count + 1 = Tuners.sampling_down_factor
            /\ OneBounds /\ tick.cur > policy.min) =>
               (Len(reqs) = 1 /\ reqs[1].relation = "L")

C2_Witness ==
    /\ OneBounds /\ Below
    /\ Tuners.sampling_down_factor = 2
    /\ tick.down_count = 1
    /\ Len(reqs) = 1 /\ reqs[1].relation = "L"

\* C3 as stated: a tick whose effective load is above up_threshold makes a
\* step-up request in that tick, whatever down_count was, and leaves
\* down_count = 0 (shown here already for the ticks that saw one pair of
\* limits).
C3_AlwaysStepsUp ==
    (OneBounds /\ Above) =>
        (Len(reqs) = 1 /\ reqs[1].relation = "H" /\ dbs.down_count = 0)

\* C3 as amended: a tick whose effective load is above up_threshold leaves
\* down_count = 0 and, whatever down_count was, makes exactly one step-up
\* request in that tick when cur_freq < max_freq and none when
\* cur_freq >= max_freq.  max_freq is the one the tick saw.
C3_Asymmetry ==
    (tick.valid /\ Above) =>
        /\ tick.branch = "up"
        /\ dbs.down_count = 0
        /\ Len(reqs) <= 1
        /\ \A i \in DOMAIN reqs : reqs[i].relation = "H"
        /\ (OneBounds /\ tick.cur < policy.max) =>
               (Len(reqs) = 1 /\ reqs[1].freq > tick.cur)
        /\ (OneBounds /\ tick.cur >= policy.max) => reqs = <<>>

C3_Witness ==
    /\ OneBounds /\ Above
    /\ tick.down_count >= 1
    /\ Len(reqs) = 1 /\ reqs[1].relation = "H"
    /\ dbs.down_count = 0

\* C4: hysteresis band.  A tick whose effective load is strictly between
\* down_threshold and up_threshold makes no request and leaves down_count = 0;
\* thresholds 80/20, max 2000, cur 1000 and raw usage 90% give load 45 and no
\* request.
C4_HysteresisBand ==
    /\ (tick.valid
        /\ tick.effective_load > Tuners.down_threshold
        /\ tick.effective_load < Tuners.up_threshold) =>
           (reqs = <<>> /\ dbs.down_count = 0 /\ tick.branch = "hold")
    /\ LET r == eco_dbs_update(ScenarioDbs(0), ScenarioPolicy(1000),
                               ScenarioReading(9, 10))
       IN  /\ r.tick.raw_usage = 90
           /\ r.tick.load = 45
           /\ r.tick.effective_load = 45
           /\ r.reqs = <<>>
           /\ r.dbs.down_count = 0

C4_Witness ==
    /\ tick.valid
    /\ tick.effective_load > Tuners.down_threshold
    /\ tick.effective_load < Tuners.up_threshold
    /\ tick.down_count >= 1
    /\ dbs.down_count = 0
    /\ reqs = <<>>

\* C5 as stated: when the wall-time delta summed over the group is 0 the load
\* is 0 and the tick takes the below-down_threshold path, for any positive
\* down_threshold.
C5_ZeroDeltaGoesDown ==
    (tick.valid /\ tick.total_wall_time = 0 /\ Tuners.down_threshold > 0) =>
        (tick.load = 0 /\ tick.branch = "down")

\* C5 as amended: when the wall-time delta summed over the group is 0 the load
\* is 0 and the effective load is clamp(-powersave_bias, 0, 100); the tick
\* takes the below-down_threshold path, counting it in down_count, exactly
\* when that effective load is below down_threshold, which it is for every
\* powersave_bias >= 0 and positive down_threshold.
C5_ZeroDelta ==
    (tick.valid /\ tick.total_wall_time = 0) =>
        /\ tick.load = 0
        /\ tick.effective_load = Clamp(0 - Tuners.powersave_bias, 0, 100)
        /\ (tick.branch = "down") <=> Below
        /\ (Tuners.powersave_bias >= 0 /\ Tuners.down_threshold > 0) =>
               tick.branch = "down"
        /\ (tick.branch = "down") =>
               dbs.down_count =
                   IF tick.down_count + 1 >= Tuners.sampling_down_factor
                   THEN 0 ELSE tick.down_count + 1

C5_Witness ==
    /\ tick.valid /\ tick.total_wall_time = 0
    /\ tick.load = 0
    /\ tick.branch = "down"
    /\ dbs.down_count = tick.down_count + 1

\* C6: the effective load used for thresholding is
\* clamp(load - powersave_bias, 0, 100), so it lies in 0..100 in every tick;
\* load 40 with bias 30 gives 10, which takes the step-down path for
\* down_threshold 20.
C6_EffectiveLoad ==
    /\ tick.valid =>
           /\ tick.effective_load = Clamp(tick.load - Tuners.powersave_bias, 0, 100)
           /\ 0 <= tick.effective_load /\ tick.effective_load <= 100
    /\ effective_load(40, 30) = 10
    /\ step_decision(ScenarioPolicy(1000), ScenarioDbs(30).tuners, 0,
                     effective_load(40, 30), 100).branch = "down"

C6_Witness ==
    /\ tick.valid
    /\ Tuners.powersave_bias = 30
    /\ tick.load > Tuners.down_threshold
    /\ tick.effective_load = tick.load - 30
    /\ tick.branch = "down"

\* C7: the load returned by eco_calculate_load lies in 0..100 in every tick
\* (shown here already for the ticks that saw one pair of limits, whose time
\* readings did not go backwards and whose raw usage is itself in 0..100).
C7_LoadWithin100 ==
    (OneBounds /\ tick.total_wall_time >= 0
     /\ 0 <= tick.raw_usage /\ tick.raw_usage <= 100) =>
        (0 <= tick.load /\ tick.load <= 100)

\* C8: at most one tick body (the section of eco_dbs_timer between mutex_lock
\* and mutex_unlock) executes at a time, and the worker in it holds the lock.
InTickBody(w) == pc[w] \in {"locked", "unlock"}

C8_OneTickAtATime ==
    \A v, w \in Workers :
        (InTickBody(v) /\ InTickBody(w)) => (v = w /\ timer_mutex = w)

C8_Witness ==
    \E v, w \in Workers : pc[v] = "unlock" /\ tick.valid /\ pc[w] = "lock"

\* C9: cancellation is blocking and final.  eco_stop and eco_exit return only
\* when no tick is pending or executing; while they wait, the tick that
\* re-arms itself after releasing the lock fails to; once nothing is pending
\* or executing only eco_start on an allocated governor arms the work again;
\* and the state is freed only when nothing is pending or executing.
Quiescent == ~work.pending /\ \A w \in Workers : pc[w] = "idle"

C9_Step ==
    /\ (gov \in {"stop", "exit"} /\ gov' = "idle") => Quiescent'
    /\ (gov \in {"stop", "exit"}) => ~work'.pending
    /\ (Quiescent /\ ~Quiescent') =>
           (gov = "idle" /\ governor_data /\ gov' = "idle" /\ governor_data')
    /\ ~governor_data' => Quiescent'

C9_Cancellation == [][C9_Step]_vars

C9_Witness ==
    /\ gov = "exit"
    /\ \E w \in Workers : pc[w] = "resched"

\* C10: down_count is 0 after every tick whose effective load is not below
\* down_threshold and after every tick in which the debounce count is
\* reached, with or without a request; it is non-zero after a tick only when
\* that tick was below the threshold, found the count under
\* sampling_down_factor and added exactly 1 to it.
C10_DownCount ==
    tick.valid =>
        /\ ~Below => dbs.down_count = 0
        /\ (tick.branch = "down"
            /\ tick.down_count + 1 >= Tuners.sampling_down_factor) =>
               dbs.down_count = 0
        /\ (tick.branch = "down"
            /\ tick.down_count + 1 < Tuners.sampling_down_factor) =>
               dbs.down_count = tick.down_count + 1
        /\ dbs.down_count # 0 =>
               /\ Below
               /\ dbs.down_count = tick.down_count + 1
               /\ dbs.down_count < Tuners.sampling_down_factor

C10_Witness ==
    /\ tick.valid /\ Below
    /\ tick.down_count >= 1
    /\ tick.down_count + 1 >= Tuners.sampling_down_factor
    /\ reqs = <<>>
    /\ dbs.down_count = 0

\* C11: frequency invariance.  For a tick whose busy and wall deltas give a
\* raw usage in 0..100, the load returned is raw_usage * cur_freq / max_freq
\* in integer arithmetic (nothing wraps), it is 0 at raw usage 0 and the raw
\* usage itself at cur_freq = max_freq, and for the same raw usage and
\* max_freq the load at half the frequency is half the load, rounded down.
\* max_freq is the one the tick saw.
CleanTick ==
    /\ OneBounds
    /\ tick.total_wall_time > 0
    /\ 0 <= tick.raw_usage /\ tick.raw_usage <= 100

C11_FrequencyInvariance ==
    CleanTick =>
        /\ tick.load = (tick.raw_usage * tick.cur) \div policy.max
        /\ (tick.cur = policy.max) => tick.load = tick.raw_usage
        /\ (tick.cur % 2 = 0) =>
               frequency_scaled_load(tick.raw_usage, tick.cur \div 2, policy.max)
                   = tick.load \div 2

C11_Witness ==
    /\ CleanTick
    /\ tick.cur % 2 = 0 /\ tick.cur < policy.max
    /\ tick.raw_usage = 50
    /\ tick.load = 30
    /\ frequency_scaled_load(tick.raw_usage, tick.cur \div 2, policy.max) = 15

\* C12: the step used by a tick is never zero.  It is
\* max_freq * freq_step / 100, or the fixed minimum step when that is 0 (as
\* it is for a configured freq_step of 0), and every request of the tick
\* targets a frequency other than cur_freq: cur_freq + step or cur_freq - step
\* unless a limit clamps it.  max_freq and the limits are those the tick saw.
C12_StepNeverZero ==
    /\ tick.valid =>
           /\ tick.freq_step_khz > 0
           /\ (Tuners.freq_step = 0) => tick.freq_step_khz = MIN_STEP_KHZ
    /\ OneBounds =>
           /\ tick.freq_step_khz =
                  IF (policy.max * Tuners.freq_step) \div 100 = 0
                  THEN MIN_STEP_KHZ
                  ELSE (policy.max * Tuners.freq_step) \div 100
           /\ \A i \in DOMAIN reqs :
                  /\ reqs[i].freq # tick.cur
                  /\ reqs[i].relation = "H" =>
                         reqs[i].freq \in {tick.cur + tick.freq_step_khz, policy.max}
                  /\ reqs[i].relation = "L" =>
                         reqs[i].freq \in {tick.cur - tick.freq_step_khz, policy.min}

C12_Witness ==
    /\ OneBounds
    /\ Tuners.freq_step = 0
    /\ tick.freq_step_khz = MIN_STEP_KHZ
    /\ Len(reqs) = 1
    /\ reqs[1].freq = tick.cur + MIN_STEP_KHZ

\* C13 as stated: a tick whose effective load exceeds up_threshold at
\* cur_freq < max_freq requests exactly min(cur_freq + step, max_freq) with
\* step = max_freq * freq_step / 100 (shown here already for the ticks whose
\* raw usage is in 0..100).
Min(a, b) == IF a < b THEN a ELSE b
Max(a, b) == IF a > b THEN a ELSE b
NominalStep == (policy.max * Tuners.freq_step) \div 100

C13_StepUpNominalStep ==
    (CleanTick /\ Above /\ tick.cur < policy.max) =>
        reqs = <<[freq |-> Min(tick.cur + NominalStep, policy.max),
                  relation |-> "H"]>>

\* C13 as amended: a tick whose effective load exceeds up_threshold requests
\* exactly min(cur_freq + step, max_freq) when cur_freq < max_freq, where step
\* is max_freq * freq_step / 100 or, when that is 0, the minimum step of
\* 1000 kHz; it makes no request when cur_freq >= max_freq.  max_freq is the
\* one the tick saw.  Thresholds 80/20, freq_step 5, max 2000, cur 1800 and
\* raw usage 90% give load 81 and a request of 1900.
C13_StepUpTarget ==
    /\ (OneBounds /\ Above) =>
           /\ tick.freq_step_khz =
                  IF NominalStep = 0 THEN MIN_STEP_KHZ ELSE NominalStep
           /\ (tick.cur < policy.max) =>
                  reqs = <<[freq |-> Min(tick.cur + tick.freq_step_khz, policy.max),
                            relation |-> "H"]>>
           /\ (tick.cur >= policy.max) => reqs = <<>>
    /\ LET r == eco_dbs_update(ScenarioDbs(0), ScenarioPolicy(1800),
                               ScenarioReading(9, 10))
       IN  /\ r.tick.load = 81
           /\ r.tick.freq_step_khz = 100
           /\ r.reqs = <<[freq |-> 1900, relation |-> "H"]>>

C13_Witness ==
    /\ OneBounds /\ Above
    /\ tick.cur < policy.max
    /\ tick.cur + tick.freq_step_khz > policy.max
    /\ reqs = <<[freq |-> policy.max, relation |-> "H"]>>

\* C14: a unit whose wall-time delta in the tick is zero or negative
\* (wall_time <= prev_total_time; a negative delta is one that wrapped in the
\* 64-bit unsigned counter) adds nothing to the busy and wall totals of the
\* tick, and the totals are those of the other units (shown here already for
\* the ticks in which some unit has a positive delta with its busy part
\* within it).
RECURSIVE SumPositive(_, _, _)
SumPositive(cpus, delta, value) ==
    IF cpus = {} THEN 0
    ELSE LET c == CHOOSE x \in cpus : TRUE
         IN  SumPositive(cpus \ {c}, delta, value)
                 + (IF delta[c] > 0 THEN value[c] ELSE 0)

C14_AnomalousUnitSkipped ==
    (tick.valid
     /\ \E c \in policy.cpus :
            tick.dt[c] > 0 /\ 0 <= tick.db[c] /\ tick.db[c] <= tick.dt[c]) =>
        /\ tick.total_wall_time = SumPositive(policy.cpus, tick.dt, tick.dt)
        /\ tick.total_busy_time = SumPositive(policy.cpus, tick.dt, tick.db)

\* C15: every read of a Tuners field made by a tick happens while the worker
\* holds timer_mutex.  The tick reads the thresholds, freq_step,
\* sampling_down_factor and powersave_bias in eco_dbs_update (its next step at
\* "locked") and sampling_rate when it re-arms the work (its next step at
\* "resched").
AboutToReadTuners(w) == pc[w] \in {"locked", "resched"}

C15_TunerReadsUnderLock ==
    \A w \in Workers : AboutToReadTuners(w) => timer_mutex = w

\* C16: a below-threshold tick in which the debounce count is reached makes,
\* when cur_freq > min_freq, exactly one request, for cur_freq - step if
\* cur_freq > step and for min_freq otherwise, raised to min_freq if below
\* it: max(min_freq, cur_freq - step) with no unsigned underflow.  When
\* cur_freq <= min_freq it makes no request.  min_freq and the max_freq of
\* the step are those the tick saw.
DebounceReached ==
    /\ OneBounds /\ Below
    /\ tick.down_count + 1 >= Tuners.sampling_down_factor

C16_StepDownTarget ==
    DebounceReached =>
        /\ (tick.cur > policy.min) =>
               /\ Len(reqs) = 1
               /\ reqs[1].relation = "L"
               /\ reqs[1].freq =
                      Max(policy.min,
                          IF tick.cur > tick.freq_step_khz
                          THEN tick.cur - tick.freq_step_khz
                          ELSE policy.min)
               /\ reqs[1].freq = Max(policy.min, tick.cur - tick.freq_step_khz)
        /\ (tick.cur <= policy.min) => reqs = <<>>

C16_Witness ==
    /\ DebounceReached
    /\ tick.cur > policy.min
    /\ tick.cur <= tick.freq_step_khz
    /\ reqs = <<[freq |-> policy.min, relation |-> "L"]>>

\* C17: every step-up request carries the rounding hint "at least the
\* requested value" and every step-down request the hint "at most the
\* requested value".
C17_RoundingHints ==
    tick.valid =>
        \A i \in DOMAIN reqs :
            /\ (tick.branch = "up") => rounding_hint(reqs[i].relation) = "at_least"
            /\ (tick.branch = "down") => rounding_hint(reqs[i].relation) = "at_most"

\* C18: between eco_start and a stop or exit the sampling loop never dies.
\* The loop goes from armed-or-running to neither only inside a cancellation
\* (eco_stop, eco_exit); the tick that completes re-arms the work with
\* sampling_rate; an armed work is eventually followed by a completed tick
\* body unless a cancellation begins, whatever the driver answered; a tick
\* makes at most one request and evaluates the cur_freq current at its start.
LoopAlive == work.pending \/ \E w \in Workers : pc[w] # "idle"
TickBodyDone == \E w \in Workers : pc[w] = "unlock"

C18_Step ==
    /\ (LoopAlive /\ ~LoopAlive') =>
           (gov \in {"stop", "exit"} \/ gov' \in {"stop", "exit"})
    /\ (gov = "idle" /\ gov' = "idle"
        /\ \E w \in Workers : pc[w] = "resched" /\ pc'[w] = "idle") =>
           (work'.pending /\ work'.delay = dbs.tuners.sampling_rate)
    /\ (\E w \in Workers : pc[w] = "locked" /\ pc'[w] = "unlock") =>
           (tick'.valid /\ tick'.cur = policy.cur /\ Len(reqs') <= 1)

C18_LoopNeverDies ==
    /\ [][C18_Step]_vars
    /\ (work.pending /\ gov = "idle") ~> (TickBodyDone \/ gov # "idle")

C18_Witness ==
    /\ gov = "idle"
    /\ work.pending /\ work.delay = DEF_SAMPLING_RATE
    /\ \E w \in Workers : pc[w] = "unlock"
    /\ tick.valid
    /\ Len(reqs) = 1
    /\ policy.cur = tick.cur

\* C19 as stated: in every reachable state 0 <= down_count <=
\* sampling_down_factor, also when sampling_down_factor is reconfigured to a
\* smaller value between ticks.
C19_AlwaysWithinFactor ==
    0 <= dbs.down_count /\ dbs.down_count <= Tuners.sampling_down_factor

\* C19 as amended: down_count is never negative; after every completed tick
\* it is below sampling_down_factor when that is at least 1 and is 0 when that
\* is 0, also when the tick found a count at or above a sampling_down_factor
\* that was lowered since the previous tick.
C19_DownCountBound ==
    /\ dbs.down_count >= 0
    /\ tick.valid =>
           /\ (Tuners.sampling_down_factor >= 1) =>
                  dbs.down_count < Tuners.sampling_down_factor
           /\ (Tuners.sampling_down_factor = 0) => dbs.down_count = 0
           /\ (tick.down_count >= Tuners.sampling_down_factor) =>
                  dbs.down_count = 0

C19_Witness ==
    /\ tick.valid
    /\ tick.down_count >= 1
    /\ tick.down_count >= Tuners.sampling_down_factor
    /\ tick.branch = "down"
    /\ dbs.down_count = 0

\* C20: convergence.  With fixed limits and tuners and a driver that honours
\* the relation passed with each request, an effective load that stays above
\* up_threshold brings cur_freq to max_freq, after which no request is made,
\* and one that stays below down_threshold brings it to min_freq, after which
\* no request is made (shown here already for the runs whose wall-time
\* readings never go backwards).
C20_Converges ==
    /\ <>[](tick.valid /\ tick.total_wall_time >= 0 /\ Above) =>
           <>[](policy.cur = policy.max /\ reqs = <<>>)
    /\ <>[](tick.valid /\ tick.total_wall_time >= 0 /\ Below) =>
           <>[](policy.cur = policy.min /\ reqs = <<>>)
====
